---- MODULE Spec2Model ----
(***************************************************************************)
(* Gravitational N-body simulator: the bounded 2D driver (src/2d.js) and   *)
(* the unbounded 3D driver (src/unnamed/part_000).                         *)
(*                                                                         *)
(* Numbers.  The program computes in IEEE-754 doubles.  Here a number is a *)
(* fixed-point value: the integer a stands for a / Scale.  Addition and    *)
(* subtraction are exact; multiplication, division and square root round   *)
(* their exact result to the nearest representable value, ties to even, as *)
(* the double operations do at their own precision.  Rounding is therefore *)
(* symmetric under negation, as it is for doubles.  A division by zero     *)
(* gives NotFinite (the doubles NaN and +-Infinity).                       *)
(***************************************************************************)
EXTENDS Integers, Sequences, FiniteSets

VARIABLES variant, pc, bodies, bodies0, k, centered, bounced, last

\* variant   "2d" (src/2d.js) or "3d" (src/unnamed/part_000)
\* pc        "sampled": the bodies are constructed, the centering pass has
\*           not run; "running": animate is the next thing to run
\* bodies    the array bodies
\* bodies0   history: the bodies when animate first ran
\* k         history: the number of calls of animate so far
\* centered  history: the centering pass has run
\* bounced   history: some wall check found a coordinate at or beyond a wall
\* last      history: what the last call of animate computed
vars == <<variant, pc, bodies, bodies0, k, centered, bounced, last>>

(* ---------------------------------------------------------------- bounds *)

MaxBodies == 3

MaxSteps == 3

(* ------------------------------------------------------------ arithmetic *)

Scale == 10 ^ 4

NotFinite == 10 ^ 8

Abs(a) == IF a < 0 THEN -a ELSE a

Sign(a) == IF a < 0 THEN -1 ELSE 1

Max(a, b) == IF a >= b THEN a ELSE b

\* whole + p/q rounded to the nearest integer, ties to even (0 <= p, 0 < q)
RoundNearest(whole, p, q) ==
    LET f == whole + (p \div q)
        r == p % q
    IN  IF 2 * r < q THEN f
        ELSE IF 2 * r > q THEN f + 1
        ELSE IF f % 2 = 0 THEN f ELSE f + 1

\* a * b
Mul(a, b) ==
    LET x == Abs(a)
        y == Abs(b)
        qx == x \div Scale
        rx == x % Scale
        qy == y \div Scale
        ry == y % Scale
    IN  Sign(a) * Sign(b) * RoundNearest(qx * y + rx * qy, rx * ry, Scale)

\* a / b
Div(a, b) ==
    IF b = 0 THEN NotFinite
    ELSE LET x == Abs(a)
             y == Abs(b)
         IN  Sign(a) * Sign(b) * RoundNearest((x \div y) * Scale, (x % y) * Scale, y)

\* m * m <= a * base * base, for integers, without forming the products
SqLeq(m, a, base) ==
    LET mh == m \div base
        ml == m % base
        d == a - mh * mh
    IN  IF mh > 0 /\ mh > a \div mh THEN FALSE
        ELSE IF d > 2 * mh + 1 THEN TRUE
        ELSE 2 * base * mh * ml + ml * ml <= d * base * base

RECURSIVE FloorRoot(_, _, _, _)
\* the largest m in lo..hi with m * m <= a * base * base
FloorRoot(a, base, lo, hi) ==
    IF lo >= hi THEN lo
    ELSE LET mid == (lo + hi + 1) \div 2
         IN  IF SqLeq(mid, a, base) THEN FloorRoot(a, base, mid, hi)
             ELSE FloorRoot(a, base, lo, mid - 1)

\* Math.sqrt(a): sqrt(a / Scale) * Scale = sqrt(a) * 100, to the nearest unit
Sqrt(a) ==
    IF a <= 0 THEN 0
    ELSE (FloorRoot(a, 200, 0, (a + 1) * 200) + 1) \div 2

(* --------------------------------------------------------------- vectors *)

\* A vector is the tuple of its components: x, y in the bounded driver
\* (THREE.Vector2) and x, y, z in the unbounded one (THREE.Vector3).
Zero(d) == IF d = 2 THEN <<0, 0>> ELSE <<0, 0, 0>>

VAdd(u, v) ==
    IF Len(u) = 2 THEN <<u[1] + v[1], u[2] + v[2]>>
    ELSE <<u[1] + v[1], u[2] + v[2], u[3] + v[3]>>

VSub(u, v) ==
    IF Len(u) = 2 THEN <<u[1] - v[1], u[2] - v[2]>>
    ELSE <<u[1] - v[1], u[2] - v[2], u[3] - v[3]>>

VNeg(u) == IF Len(u) = 2 THEN <<-u[1], -u[2]>> ELSE <<-u[1], -u[2], -u[3]>>

multiplyScalar(u, s) ==
    IF Len(u) = 2 THEN <<Mul(u[1], s), Mul(u[2], s)>>
    ELSE <<Mul(u[1], s), Mul(u[2], s), Mul(u[3], s)>>

divideScalar(u, s) ==
    IF Len(u) = 2 THEN <<Div(u[1], s), Div(u[2], s)>>
    ELSE <<Div(u[1], s), Div(u[2], s), Div(u[3], s)>>

RECURSIVE SumSq(_, _)
SumSq(u, c) == IF c = 0 THEN 0 ELSE SumSq(u, c - 1) + Mul(u[c], u[c])

lengthSq(u) == SumSq(u, Len(u))

length(u) == Sqrt(lengthSq(u))

(* ------------------------------------------------------------- constants *)

\* dt of the bounded 2D driver: 0.001
dt2d == Scale \div 1000

\* dt of the unbounded 3D driver: 0.01
dt3d == Scale \div 100

\* min = 0.0001
min == Scale \div 10000

\* the walls of the bounded driver, at -3 and 3
wall == 3 * Scale

\* the factor of the sampled velocities of the bounded driver: 0.002
velScale == (2 * Scale) \div 1000

Dim(v) == IF v = "2d" THEN 2 ELSE 3

dt(v) == IF v = "2d" THEN dt2d ELSE dt3d

(* ------------------------------------------------------------------ Body *)

\* new Body(pos, vel, mass)
Body(pos, vel, mass) ==
    [pos |-> pos, vel |-> vel, acc |-> Zero(Len(pos)), mass |-> mass]

\* update with the velocity integrated before the position (explicit order)
updateVelocityFirst(b, h) ==
    LET v == VAdd(b.vel, multiplyScalar(b.acc, h))
    IN  [b EXCEPT !.pos = VAdd(b.pos, multiplyScalar(v, h)),
                  !.vel = v,
                  !.acc = Zero(Len(b.acc))]

\* update without the reset of the acceleration
updateKeepsAcc(b, h) ==
    [b EXCEPT !.pos = VAdd(b.pos, multiplyScalar(b.vel, h)),
              !.vel = VAdd(b.vel, multiplyScalar(b.acc, h))]

\* Body.update(dt)
update(b, h) ==
    [b EXCEPT !.pos = VAdd(b.pos, multiplyScalar(b.vel, h)),
              !.vel = VAdd(b.vel, multiplyScalar(b.acc, h)),
              !.acc = Zero(Len(b.acc))]

(* ------------------------------------------------------------ pair force *)

\* if (mag < 1) mag = 1
ClampMag(mag) == IF mag < Scale THEN Scale ELSE mag

\* the divisor without the floor min
DenominatorNoFloor(magSq, mag) == Mul(magSq, mag)

\* Math.max(magSq, min) * mag
Denominator(magSq, mag) == Mul(Max(magSq, min), mag)

\* r.clone().divideScalar(Math.max(magSq, min) * mag)
ForceTerm(r) ==
    LET magSq == lengthSq(r)
        mag == ClampMag(Sqrt(magSq))
    IN  divideScalar(r, Denominator(magSq, mag))

\* what the body of the inner loop adds to bodies[i].acc
ContributionI(tmp, m1, m2) == multiplyScalar(tmp, m2)

\* the contribution to bodies[j].acc scaled by the mass of body j itself
ContributionJOwnMass(tmp, m1, m2) == VNeg(multiplyScalar(tmp, m2))

\* what the body of the inner loop adds to bodies[j].acc
ContributionJ(tmp, m1, m2) == VNeg(multiplyScalar(tmp, m1))

\* the body of the inner loop for the pair (i, j), as a record of what it
\* computed
PairStep(bs, i, j) ==
    LET r == VSub(bs[j].pos, bs[i].pos)
        magSq == lengthSq(r)
        mag == ClampMag(Sqrt(magSq))
        tmp == ForceTerm(r)
    IN  [i |-> i, j |-> j, r |-> r,
         denom |-> Denominator(magSq, mag),
         ci |-> ContributionI(tmp, bs[i].mass, bs[j].mass),
         cj |-> ContributionJ(tmp, bs[i].mass, bs[j].mass)]

RECURSIVE PairsFrom(_, _, _)
\* the pairs the double loop visits from (i, j) on, in its order
PairsFrom(n, i, j) ==
    IF i > n THEN <<>>
    ELSE IF j > n THEN PairsFrom(n, i + 1, i + 2)
    ELSE <<(<<i, j>>)>> \o PairsFrom(n, i, j + 1)

PairLoop(n) == PairsFrom(n, 1, 2)

RECURSIVE RecordsFrom(_, _, _)
RecordsFrom(bs, ps, x) ==
    IF x > Len(ps) THEN <<>>
    ELSE <<PairStep(bs, ps[x][1], ps[x][2])>> \o RecordsFrom(bs, ps, x + 1)

\* the records of one pass of the double loop (positions do not change in it)
PairRecords(bs) == RecordsFrom(bs, PairLoop(Len(bs)), 1)

RECURSIVE AccAfter(_, _, _, _)
\* bodies[b].acc after the first x pairs of the double loop: the loop adds to
\* it in the order of the pairs
AccAfter(bs, recs, b, x) ==
    IF x = 0 THEN bs[b].acc
    ELSE IF recs[x].i = b THEN VAdd(AccAfter(bs, recs, b, x - 1), recs[x].ci)
    ELSE IF recs[x].j = b THEN VAdd(AccAfter(bs, recs, b, x - 1), recs[x].cj)
    ELSE AccAfter(bs, recs, b, x - 1)

RECURSIVE AccumulateTo(_, _, _)
AccumulateTo(bs, recs, b) ==
    IF b = 0 THEN <<>>
    ELSE Append(AccumulateTo(bs, recs, b - 1),
                [bs[b] EXCEPT !.acc = AccAfter(bs, recs, b, Len(recs))])

\* the bodies after the double loop
Accumulate(bs, recs) == AccumulateTo(bs, recs, Len(bs))

(* ------------------------------------------------------------ wall check *)

\* the lower comparison, strict
OutLowStrict(x) == x < -wall

\* body.pos.x <= -3
OutLow(x) == x <= -wall

\* the upper comparison, strict
OutHighStrict(x) == x > wall

\* body.pos.x >= 3
OutHigh(x) == x >= wall

\* body.pos.x <= -3 || body.pos.x >= 3
Outside(x) == OutLow(x) \/ OutHigh(x)

\* a wall check that reverses the whole velocity when either axis is out
WallCheckBothAxes(b) ==
    [b EXCEPT !.vel = IF Outside(b.pos[1]) \/ Outside(b.pos[2]) THEN VNeg(b.vel) ELSE b.vel]

\* the two boundary ifs of the bounded driver
WallCheck(b) ==
    [b EXCEPT !.vel = <<IF Outside(b.pos[1]) THEN -b.vel[1] ELSE b.vel[1],
                        IF Outside(b.pos[2]) THEN -b.vel[2] ELSE b.vel[2]>>]

\* history: a coordinate of b is at or beyond a wall
Hits(b) == \E c \in DOMAIN b.pos : Abs(b.pos[c]) >= wall

(* --------------------------------------------------------------- centering *)

RECURSIVE MassSum(_, _, _)
\* bodies.reduce((sum, body) => sum.add(body.<f>.clone().multiplyScalar(body.mass)))
MassSum(bs, f, x) ==
    IF x = 0 THEN Zero(Len(bs[1].pos))
    ELSE VAdd(MassSum(bs, f, x - 1),
              multiplyScalar(IF f = "vel" THEN bs[x].vel ELSE bs[x].pos, bs[x].mass))

velSum(bs) == divideScalar(MassSum(bs, "vel", Len(bs)), Len(bs) * Scale)

posSum(bs) == divideScalar(MassSum(bs, "pos", Len(bs)), Len(bs) * Scale)

RECURSIVE SubAll(_, _, _, _)
SubAll(bs, vs, ps, x) ==
    IF x = 0 THEN <<>>
    ELSE Append(SubAll(bs, vs, ps, x - 1),
                [bs[x] EXCEPT !.vel = VSub(bs[x].vel, vs), !.pos = VSub(bs[x].pos, ps)])

\* bodies.forEach(body => { body.vel.sub(velSum); body.pos.sub(posSum); })
Centered(bs) == SubAll(bs, velSum(bs), posSum(bs), Len(bs))

RECURSIVE MaxLength(_, _)
\* Math.max(...bodies.map(body => body.pos.length()))
MaxLength(bs, x) ==
    IF x = 1 THEN length(bs[1].pos)
    ELSE Max(MaxLength(bs, x - 1), length(bs[x].pos))

maxRadius(bs) == MaxLength(bs, Len(bs))

RECURSIVE DivideAll(_, _, _)
DivideAll(bs, mr, x) ==
    IF x = 0 THEN <<>>
    ELSE Append(DivideAll(bs, mr, x - 1), [bs[x] EXCEPT !.pos = divideScalar(bs[x].pos, mr)])

\* bodies.forEach(body => { body.pos.divideScalar(maxRadius); })
Normalized(bs) == DivideAll(bs, maxRadius(bs), Len(bs))

RECURSIVE UpdateAll(_, _, _)
\* bodies.forEach(body => { body.update(dt); }), before any wall check
UpdateAll(bs, h, x) ==
    IF x = 0 THEN <<>> ELSE Append(UpdateAll(bs, h, x - 1), update(bs[x], h))

RECURSIVE WallCheckAll(_, _)
WallCheckAll(bs, x) ==
    IF x = 0 THEN <<>> ELSE Append(WallCheckAll(bs, x - 1), WallCheck(bs[x]))

(* ------------------------------------------------------------ the inputs *)

\* the masses of the bodies handed to animate
Masses == {1 * Scale, 2 * Scale}

\* const mass = 2 of the bounded driver
mass2d == 2 * Scale

\* a sampled body of the bounded driver: p and v are values of randDisc()
Sampled(p, v) == Body(p, multiplyScalar(v, velScale), mass2d)

SampledBodies ==
    {Sampled(<<5000, 0>>, <<6000, 8000>>), Sampled(<<0, -5000>>, <<5000, 0>>),
     Sampled(<<6000, 8000>>, <<-3000, 4000>>), Sampled(<<-3000, 4000>>, <<0, -5000>>)}

\* positions and velocities of bodies of a run of the bounded driver: next
\* to the right wall and moving to it, a neighbour 0.01 inside of that one,
\* the mirror image of the first, one crossing the top wall, one inside
Run2dStates ==
    <<(<<(<<29999, 0>>), (<<1000, 0>>)>>),
      (<<(<<29899, 0>>), (<<0, 0>>)>>),
      (<<(<<-29999, 0>>), (<<-1000, 0>>)>>),
      (<<(<<5000, 29990>>), (<<500, 20000>>)>>),
      (<<(<<-5000, -5000>>), (<<2000, -3000>>)>>)>>

\* positions and velocities of bodies of a run of the unbounded driver
Run3dStates ==
    <<(<<(<<-10000, 0, 0>>), (<<0, 0, 0>>)>>),
      (<<(<<10000, 0, 0>>), (<<0, 0, 0>>)>>),
      (<<(<<5000, 5000, 0>>), (<<100, 0, -200>>)>>),
      (<<(<<-5000, -5000, 0>>), (<<-100, 0, 200>>)>>),
      (<<(<<0, 20000, -10000>>), (<<0, -300, 0>>)>>)>>

\* the collections of n bodies with states of S and masses of Masses; the
\* accumulation adds exactly, so the order of the bodies changes nothing and
\* a collection is listed once, its states in the order of S
RunBodies(S, n) ==
    {[x \in 1..n |-> Body(S[idx[x]][1], S[idx[x]][2], ms[x])] :
        idx \in {f \in [1..n -> 1..Len(S)] : \A x \in 1..(n - 1) : f[x] <= f[x + 1]},
        ms \in [1..n -> Masses]}

NoStep == [pre |-> <<>>, pairs |-> <<>>, acc |-> <<>>, upd |-> <<>>]

(* ----------------------------------------------------- the state machine *)

\* The bodies as constructed.  Three families: the sampled bodies of the
\* bounded driver, before its centering pass; collections of bodies of a run
\* of the bounded driver (near the walls, where the boundary check acts);
\* collections of bodies of a run of the unbounded driver.
Init ==
    /\ \E n \in 1..MaxBodies :
         \/ /\ variant = "2d"
            /\ pc = "sampled"
            /\ bodies \in [1..n -> SampledBodies]
            /\ maxRadius(Centered(bodies)) # 0
         \/ /\ variant = "2d"
            /\ pc = "running"
            /\ bodies \in RunBodies(Run2dStates, n)
         \/ /\ variant = "3d"
            /\ pc = "running"
            /\ bodies \in RunBodies(Run3dStates, n)
    /\ bodies0 = bodies
    /\ k = 0
    /\ centered = FALSE
    /\ bounced = FALSE
    /\ last = NoStep

\* src/2d.js, lines 51-63: the centering and the normalization
Center ==
    /\ pc = "sampled"
    /\ bodies' = Normalized(Centered(bodies))
    /\ bodies0' = bodies'
    /\ pc' = "running"
    /\ centered' = TRUE
    /\ UNCHANGED <<variant, k, bounced, last>>

\* one call of animate of the bounded driver
animate2d ==
    /\ pc = "running"
    /\ variant = "2d"
    /\ k < MaxSteps
    /\ \E recs \in {PairRecords(bodies)} :
       \E accd \in {Accumulate(bodies, recs)} :
       \E upd \in {UpdateAll(accd, dt2d, Len(accd))} :
          /\ bodies' = WallCheckAll(upd, Len(upd))
          /\ bounced' = (bounced \/ \E x \in 1..Len(upd) : Hits(upd[x]))
          /\ last' = [pre |-> bodies, pairs |-> recs, acc |-> accd, upd |-> upd]
    /\ k' = k + 1
    /\ UNCHANGED <<variant, pc, bodies0, centered>>

\* one call of animate of the unbounded driver
animate3d ==
    /\ pc = "running"
    /\ variant = "3d"
    /\ k < MaxSteps
    /\ \E recs \in {PairRecords(bodies)} :
       \E accd \in {Accumulate(bodies, recs)} :
       \E upd \in {UpdateAll(accd, dt3d, Len(accd))} :
          /\ bodies' = upd
          /\ last' = [pre |-> bodies, pairs |-> recs, acc |-> accd, upd |-> upd]
    /\ k' = k + 1
    /\ UNCHANGED <<variant, pc, bodies0, centered, bounced>>

Next == Center \/ animate2d \/ animate3d

Spec == Init /\ [][Next]_vars

(* ------------------------------------------------------------ the claims *)

N == Len(bodies)

Stepped == pc = "running" /\ k >= 1

\* 0.0002: what the rounding of the centering pass may leave of a mean
Tolerance == Scale \div 5000

Small(v) == \A c \in DOMAIN v : Abs(v[c]) <= Tolerance

StrictlyInside(x) == -wall < x /\ x < wall

\* C1: after the centering pass and before the first step, the mean of
\* mass * velocity and the mean of mass * position over the bodies (all of
\* mass 2) are the zero vector, up to the rounding of the pass.
C1_CenteredMeansZero ==
    (centered /\ k = 0) => (Small(velSum(bodies)) /\ Small(posSum(bodies)))

\* pos0 + k * (vel0 * dt)
Linear(b0, steps, h) ==
    LET d == multiplyScalar(b0.vel, h)
    IN  [c \in DOMAIN d |-> b0.pos[c] + steps * d[c]]

\* C2, as claimed: with one body, after any number of steps of either driver
\* the acceleration is zero, the velocity is the initial one and the
\* position is position(0) + velocity(0) * k * dt.
C2_SingleBodyLinear ==
    (pc = "running" /\ N = 1) =>
        /\ bodies[1].acc = Zero(Dim(variant))
        /\ bodies[1].vel = bodies0[1].vel
        /\ \A c \in 1..Dim(variant) :
              bodies[1].pos[c] = Linear(bodies0[1], k, dt(variant))[c]

\* C2, amended: with one body the acceleration stays zero and every step
\* adds velocity * dt to the position; the unbounded driver keeps the
\* velocity, the bounded driver negates the component whose coordinate is
\* <= -3 or >= 3 after the step and keeps the other; so the velocity is the
\* initial one and the position is linear in k as long as no coordinate has
\* reached a wall.
C2_SingleBodyUntilWall ==
    (pc = "running" /\ N = 1) =>
        /\ bodies[1].acc = Zero(Dim(variant))
        /\ k >= 1 =>
              /\ bodies[1].pos
                   = VAdd(last.pre[1].pos, multiplyScalar(last.pre[1].vel, dt(variant)))
              /\ \A c \in 1..Dim(variant) :
                    bodies[1].vel[c] =
                       IF variant = "2d" /\ Abs(bodies[1].pos[c]) >= wall
                       THEN -last.pre[1].vel[c] ELSE last.pre[1].vel[c]
        /\ ~bounced =>
              /\ bodies[1].vel = bodies0[1].vel
              /\ \A c \in 1..Dim(variant) :
                    bodies[1].pos[c] = Linear(bodies0[1], k, dt(variant))[c]

\* a single body of the bounded driver has moved, reached a wall and had a
\* velocity component negated, and has stepped again
C2_Witness ==
    /\ pc = "running" /\ N = 1 /\ variant = "2d" /\ k >= 2 /\ bounced
    /\ bodies[1].vel # bodies0[1].vel
    /\ bodies[1].pos # bodies0[1].pos

\* C3: a body whose x was below 3 before a step, is >= 3 after the position
\* update and moved with velocity x > 0 has velocity x < 0 when the step
\* finishes.
C3_CrossingReflects ==
    (Stepped /\ variant = "2d") =>
        \A x \in 1..N :
            (/\ last.pre[x].pos[1] < wall
             /\ last.upd[x].pos[1] >= wall
             /\ last.pre[x].vel[1] > 0) => bodies[x].vel[1] < 0

\* the two bodies of the example: mass 1 at (-1, 0, 0) and (1, 0, 0), at rest
ExampleBodies ==
    <<Body(<<-Scale, 0, 0>>, <<0, 0, 0>>, Scale), Body(<<Scale, 0, 0>>, <<0, 0, 0>>, Scale)>>

\* C4: one update sets position = old position + old velocity * dt, then
\* velocity = old velocity + accumulated acceleration * dt, then
\* acceleration = 0; so the two bodies of the example (dt = 0.01) leave the
\* first body at (-1, 0, 0) exactly, with velocity (0.0025, 0, 0).
C4_SymplecticOrder ==
    Stepped =>
        /\ \A x \in 1..N :
              /\ last.upd[x].pos
                   = VAdd(last.pre[x].pos, multiplyScalar(last.pre[x].vel, dt(variant)))
              /\ last.upd[x].vel
                   = VAdd(last.pre[x].vel, multiplyScalar(last.acc[x].acc, dt(variant)))
              /\ last.upd[x].acc = Zero(Dim(variant))
        /\ (variant = "3d" /\ k = 1 /\ bodies0 = ExampleBodies) =>
              /\ bodies[1].pos = <<-Scale, 0, 0>>
              /\ bodies[1].vel = <<Scale \div 400, 0, 0>>

\* the example has run one step of the unbounded driver: the first body was
\* accelerated and has not moved
C4_Witness ==
    /\ variant = "3d" /\ k = 1 /\ bodies0 = ExampleBodies
    /\ bodies[1].vel = <<25, 0, 0>>

\* the unordered pairs of 1..n
Unordered(n) == {{i, j} : i \in 1..n, j \in 1..n} \ {{i} : i \in 1..n}

\* C5: for every pair i < j the double loop visits, contribution_i * mass_i
\* = -(contribution_j * mass_j); the loop visits each unordered pair once.
C5_ThirdLaw ==
    Stepped =>
        /\ \A x \in 1..Len(last.pairs) :
              LET p == last.pairs[x]
              IN  /\ p.i < p.j
                  /\ multiplyScalar(p.ci, last.pre[p.i].mass)
                       = VNeg(multiplyScalar(p.cj, last.pre[p.j].mass))
        /\ \A u \in Unordered(N) :
              Cardinality({x \in 1..Len(last.pairs) :
                              {last.pairs[x].i, last.pairs[x].j} = u}) = 1

\* three bodies have stepped; a visited pair has unequal masses and a
\* contribution that is not zero
C5_Witness ==
    /\ Stepped /\ N = 3
    /\ \E x \in 1..Len(last.pairs) :
          /\ last.pre[last.pairs[x].i].mass # last.pre[last.pairs[x].j].mass
          /\ last.pairs[x].ci # Zero(Dim(variant))

RECURSIVE ContributionSum(_, _, _, _)
\* the sum of the contributions of the first x pairs to body b
ContributionSum(recs, b, x, d) ==
    IF x = 0 THEN Zero(d)
    ELSE VAdd(ContributionSum(recs, b, x - 1, d),
              IF recs[x].i = b THEN recs[x].ci
              ELSE IF recs[x].j = b THEN recs[x].cj ELSE Zero(d))

\* C6: when the pair loop of a step begins every acceleration is the zero
\* vector, so the acceleration a step integrates is the sum of that step's
\* pair contributions.
C6_AccZeroBeforeLoop ==
    /\ \A x \in 1..N : bodies[x].acc = Zero(Dim(variant))
    /\ Stepped =>
          \A x \in 1..N :
              last.acc[x].acc
                 = ContributionSum(last.pairs, x, Len(last.pairs), Dim(variant))

\* a second step has run, and it accumulated an acceleration that is not zero
C6_Witness ==
    /\ Stepped /\ k >= 2
    /\ \E x \in 1..N : last.acc[x].acc # Zero(Dim(variant))

Mirror(bs) ==
    /\ Len(bs) = 2
    /\ bs[1].mass = bs[2].mass
    /\ bs[2].pos = VNeg(bs[1].pos)
    /\ bs[2].vel = VNeg(bs[1].vel)

\* C7: two bodies of equal mass that start as mirror images about the
\* origin are mirror images after every number of steps, in both drivers.
C7_MirrorSymmetry ==
    (pc = "running" /\ Mirror(bodies0)) => Mirror(bodies)

\* two mirrored bodies of the bounded driver have reached opposite walls in
\* the same step and both had the velocity negated
C7_Witness ==
    /\ Stepped /\ variant = "2d" /\ Mirror(bodies0)
    /\ last.upd[1].pos[1] >= wall
    /\ last.upd[2].pos[1] <= -wall
    /\ bodies[1].vel[1] = -last.upd[1].vel[1]
    /\ bodies[2].vel[1] = -last.upd[2].vel[1]
    /\ bodies[1].vel[1] # 0

\* C8: the wall check negates velocity.x iff position.x <= -3 or >= 3, and
\* velocity.y iff position.y <= -3 or >= 3, and changes nothing else.
C8_WallCheckEffect ==
    (Stepped /\ variant = "2d") =>
        \A x \in 1..N :
            /\ bodies[x].pos = last.upd[x].pos
            /\ bodies[x].mass = last.upd[x].mass
            /\ bodies[x].acc = last.upd[x].acc
            /\ \A c \in 1..2 :
                  bodies[x].vel[c] =
                     IF last.upd[x].pos[c] <= -wall \/ last.upd[x].pos[c] >= wall
                     THEN -last.upd[x].vel[c] ELSE last.upd[x].vel[c]

\* a body is beyond the top wall and inside on x, with both velocity
\* components not zero: y was negated and x was kept
C8_Witness ==
    /\ Stepped /\ variant = "2d"
    /\ \E x \in 1..N :
          /\ StrictlyInside(last.upd[x].pos[1])
          /\ last.upd[x].pos[2] >= wall
          /\ last.upd[x].vel[1] # 0
          /\ last.upd[x].vel[2] # 0
          /\ bodies[x].vel = <<last.upd[x].vel[1], -last.upd[x].vel[2]>>

\* C9: a coordinate that is <= -3 or >= 3 at the end of a step is strictly
\* inside (-3, 3) at the end of the next step.
C9_OutsideOneFrame ==
    (Stepped /\ variant = "2d" /\ k >= 2) =>
        \A x \in 1..N : \A c \in 1..2 :
            (last.pre[x].pos[c] <= -wall \/ last.pre[x].pos[c] >= wall)
               => StrictlyInside(bodies[x].pos[c])

Finite(v) == \A c \in DOMAIN v : Abs(v[c]) # NotFinite

\* C10: the divisor of every pair is at least min, so it is positive and
\* the contribution is finite; two bodies at the same position contribute
\* the zero vector to both accelerations.
C10_NoDivisionByZero ==
    Stepped =>
        \A x \in 1..Len(last.pairs) :
            LET p == last.pairs[x]
            IN  /\ p.denom >= min
                /\ p.denom > 0
                /\ Finite(p.ci) /\ Finite(p.cj)
                /\ (p.r = Zero(Dim(variant))) =>
                      (p.ci = Zero(Dim(variant)) /\ p.cj = Zero(Dim(variant)))

\* a step visited a pair of bodies at the same position and a pair whose
\* divisor is the floor min itself
C10_Witness ==
    /\ Stepped
    /\ \E x \in 1..Len(last.pairs) : last.pairs[x].r = Zero(Dim(variant))
    /\ \E x \in 1..Len(last.pairs) : last.pairs[x].denom = min

====
